---- MODULE Spec2Model ----
(***************************************************************************)
(* A model of pjscrape.js: the batching writer and its formatters, the     *)
(* suite manager, the scraper suites and the per-URL scrape protocol.      *)
(*                                                                         *)
(* JavaScript strings are sequences of one-character strings.  A value a   *)
(* scraper hands to writer.add is a record [kind, v]: kind "undefined"     *)
(* (no result), "value" (one item, v = <<item>>) or "array" (v = the       *)
(* list).  Items are natural numbers; the item 0 is JavaScript's falsy 0.  *)
(***************************************************************************)
EXTENDS Integers, Sequences, FiniteSets, TLC

(* ------------------------------ bounds -------------------------------- *)
MaxAdds == 4
MaxBatch == 2
MaxOpens == 3
MaxRows == 3

(* ------------------------- program constants -------------------------- *)
\* config.timeoutInterval and config.timeoutLimit as the source sets them
DefaultTimeoutInterval == 300
DefaultTimeoutLimit == 3000

(* --------------------------- JavaScript values ------------------------ *)
Undefined == [kind |-> "undefined", v |-> <<>>]
Value(x) == [kind |-> "value", v |-> <<x>>]
Array(s) == [kind |-> "array", v |-> s]

\* JavaScript truthiness of a scraper result: undefined and 0 are falsy,
\* every array (the empty one too) is truthy.
Truthy(i) == i.kind = "array" \/ (i.kind = "value" /\ i.v[1] # 0)

isArray(a) == a.kind = "array"

arrify(a) == IF isArray(a) THEN a.v ELSE IF Truthy(a) THEN a.v ELSE <<>>

(* ------------------------------ strings ------------------------------- *)
DigitChar(d) == <<"0", "1", "2", "3", "4", "5", "6", "7", "8", "9">>[d + 1]

RECURSIVE Digits(_)
Digits(n) == IF n < 10 THEN <<DigitChar(n)>>
             ELSE Digits(n \div 10) \o <<DigitChar(n % 10)>>

RECURSIVE join(_, _)
join(strs, delimiter) ==
    IF strs = <<>> THEN <<>>
    ELSE IF Len(strs) = 1 THEN strs[1]
    ELSE strs[1] \o delimiter \o join(Tail(strs), delimiter)

RECURSIVE Concat(_)
Concat(strs) == IF strs = <<>> THEN <<>> ELSE strs[1] \o Concat(Tail(strs))

(* ----------------------------- formatters ----------------------------- *)
Formats == {"json", "raw"}

formatterStart(format) == IF format = "json" THEN <<"[">> ELSE <<>>
formatterEnd(format) == IF format = "json" THEN <<"]">> ELSE <<>>
formatterDelimiter(format) == IF format = "json" THEN <<",">> ELSE <<>>

\* JSON.stringify and toString of a number: its decimal digits.
formatterFormat(format, item) == Digits(item)

(* ------------------------------- writer ------------------------------- *)
\* writers.base: the closure variables and the strings handed to w.write.
NewWriter(format, batchSize) ==
    [count |-> 0, items |-> <<>>, batchSize |-> batchSize, format |-> format,
     firstWrite |-> TRUE, lastWrite |-> FALSE, out |-> <<>>]

\* writeBatch that forgets to clear firstWrite
writeBatchKeepsFirst(w, batch) ==
    LET s == (IF w.firstWrite THEN formatterStart(w.format)
                              ELSE formatterDelimiter(w.format))
             \o join([k \in 1..Len(batch) |-> formatterFormat(w.format, batch[k])],
                     formatterDelimiter(w.format))
             \o (IF w.lastWrite THEN formatterEnd(w.format) ELSE <<>>)
    IN  [w EXCEPT !.out = Append(@, s)]

writeBatch(w, batch) ==
    LET s == (IF w.firstWrite THEN formatterStart(w.format)
                              ELSE formatterDelimiter(w.format))
             \o join([k \in 1..Len(batch) |-> formatterFormat(w.format, batch[k])],
                     formatterDelimiter(w.format))
             \o (IF w.lastWrite THEN formatterEnd(w.format) ELSE <<>>)
    IN  [w EXCEPT !.out = Append(@, s), !.firstWrite = FALSE]

\* the flush test with >= for >
NeedsFlushAtSize(batchSize, len) == batchSize # 0 /\ len >= batchSize

\* batchSize && items.length > batchSize (batchSize 0 stands for unset too)
NeedsFlush(batchSize, len) == batchSize # 0 /\ len > batchSize

\* add that flushes the whole buffer when it flushes
addFlushesAll(w, i) ==
    IF Truthy(i)
    THEN LET a == arrify(i)
             all == w.items \o a
             w1 == [w EXCEPT !.items = all, !.count = @ + Len(a)]
         IN  IF NeedsFlush(w.batchSize, Len(all))
             THEN writeBatch([w1 EXCEPT !.items = <<>>], all)
             ELSE w1
    ELSE w

\* add that flushes a single item when it flushes
addFlushesOneItem(w, i) ==
    IF Truthy(i)
    THEN LET a == arrify(i)
             all == w.items \o a
             w1 == [w EXCEPT !.items = all, !.count = @ + Len(a)]
         IN  IF NeedsFlush(w.batchSize, Len(all))
             THEN writeBatch([w1 EXCEPT !.items = SubSeq(all, 2, Len(all))],
                             SubSeq(all, 1, 1))
             ELSE w1
    ELSE w

\* add that counts calls, not items
addCountsCalls(w, i) ==
    IF Truthy(i)
    THEN LET a == arrify(i)
             all == w.items \o a
             w1 == [w EXCEPT !.items = all, !.count = @ + 1]
         IN  IF NeedsFlush(w.batchSize, Len(all))
             THEN writeBatch([w1 EXCEPT !.items = SubSeq(all, w.batchSize + 1, Len(all))],
                             SubSeq(all, 1, w.batchSize))
             ELSE w1
    ELSE w

add(w, i) ==
    IF Truthy(i)
    THEN LET a == arrify(i)
             all == w.items \o a
             w1 == [w EXCEPT !.items = all, !.count = @ + Len(a)]
         IN  IF NeedsFlush(w.batchSize, Len(all))
             THEN writeBatch([w1 EXCEPT !.items = SubSeq(all, w.batchSize + 1, Len(all))],
                             SubSeq(all, 1, w.batchSize))
             ELSE w1
    ELSE w

finish(w) == writeBatch([w EXCEPT !.lastWrite = TRUE], w.items)

count(w) == w.count

(* ------------------------------- suites ------------------------------- *)
\* A suite's options as ScraperSuite keeps them in s.opts.  maxDepthSet is
\* whether opts.maxDepth is defined; scrapers is the number of scraper
\* functions; moreUrls is whether a link-discovery hook is configured;
\* loadScript is the number of scripts to inject.
Opts(scrapers, moreUrls, maxDepthSet, maxDepth) ==
    [scrapers |-> scrapers, moreUrls |-> moreUrls,
     maxDepthSet |-> maxDepthSet, maxDepth |-> maxDepth, loadScript |-> 0]

\* options with n scripts in loadScript
WithScripts(opts, n) == [opts EXCEPT !.loadScript = n]

\* new ScraperSuite(title, urls, opts): depth starts at 0.
ScraperSuite(title, urls, opts) ==
    [title |-> title, urls |-> urls, opts |-> opts, depth |-> 0]

NoSuite == ScraperSuite(<<>>, <<>>, Opts(0, FALSE, FALSE, 0))

\* What pjs.addSuite was given before init runs: lists of [urls, opts].
ConfiguredSuites ==
    { <<[urls |-> <<"a", "b">>, opts |-> WithScripts(Opts(1, FALSE, FALSE, 0), 2)]>>,
      <<[urls |-> <<"a">>, opts |-> WithScripts(Opts(2, TRUE, FALSE, 0), 1)]>>,
      <<[urls |-> <<"a">>, opts |-> Opts(1, TRUE, TRUE, 1)]>>,
      <<[urls |-> <<"a">>, opts |-> Opts(1, TRUE, TRUE, 0)]>>,
      <<[urls |-> <<"a">>, opts |-> Opts(1, TRUE, TRUE, 2)],
        [urls |-> <<"b">>, opts |-> Opts(0, FALSE, FALSE, 0)]>>,
      <<[urls |-> <<>>, opts |-> Opts(1, FALSE, FALSE, 0)],
        [urls |-> <<"c", "c">>, opts |-> Opts(2, FALSE, FALSE, 0)]>>,
      <<[urls |-> <<"c">>, opts |-> Opts(0, TRUE, FALSE, 0)]>> }

\* What pjs.config may have set before init runs: the default poll interval,
\* the default poll limit or one of two intervals, with or without a batch size.
Configs ==
    { [timeoutInterval |-> DefaultTimeoutInterval, timeoutLimit |-> l,
       batchSize |-> b, format |-> "json", log |-> "stdout", writer |-> "stdout"] :
         l \in {2 * DefaultTimeoutInterval, DefaultTimeoutLimit}, b \in {0, MaxBatch} }

(* ------------------------------- state -------------------------------- *)
VARIABLES
    config,       \* the config object
    configured,   \* the suites handed to pjs.addSuite (var suites, line 48)
    suites,       \* SuiteManager's queue
    suite,        \* the running suite: [s, running, runCounter, i]
    page,         \* the page of the current URL: [url, n, pos, state]
    timer,        \* the readiness poll: [armed, elapsed, page], page its closure's
    visited,      \* the visited URLs
    writer,       \* the writer object (writers.base closure)
    errors,       \* the URLs log.error reported as not loaded
    pc,           \* "start", "running", "exited" ("writer": writer on its own)
    opened,       \* history: the URLs passed to page.open, in order
    loaded,       \* history: the indexes in opened whose open succeeded
    scraped,      \* history: the indexes in opened scrapePage was called for
    extraction,   \* history: the last scrapePage call, [n, how]
    runOrder,     \* history: the titles of the suites in the order they ran
    addArgs,      \* history: the arguments of every writer.add call, in order
    addTags,      \* history: for each add call, who made it
    finishCalls,  \* history: number of writer.finish calls
    disc,         \* history: the last link discovery
    phantom,      \* the phantom object: [args, exits, status, fatal]
    events        \* history: suites added, run and completed, URLs opened and done

vars == <<config, configured, suites, suite, page, timer, visited, writer, errors,
          pc, opened, loaded, scraped, extraction, runOrder, addArgs, addTags,
          finishCalls, disc, phantom, events>>

crawlVars == <<config, configured, suites, suite, page, timer, visited, errors, extraction,
               opened, loaded, scraped, runOrder, addTags, disc, phantom,
               events>>

NoPage == [url |-> "", n |-> 0, pos |-> 0, state |-> "none"]

\* phantom before the script has run: args are the configuration files
\* named on the command line, usage whether the usage line was printed, exits
\* the number of phantom.exit calls, status the exit status, fatal the
\* messages fail has printed.
NoPhantom == [args |-> <<>>, usage |-> FALSE, exits |-> 0, status |-> 0, fatal |-> <<>>]

NoDisc == [happened |-> FALSE, candidates |-> <<>>, visited |-> {},
           enqueued |-> FALSE, urls |-> <<>>, parentDepth |-> 0, depth |-> 0,
           maxDepthSet |-> FALSE, maxDepth |-> 0]

\* The state as one record, so that a handler is a function of it.
St == [config |-> config, configured |-> configured, suites |-> suites, suite |-> suite, page |-> page, timer |-> timer,
       visited |-> visited, writer |-> writer, errors |-> errors,
       extraction |-> extraction, pc |-> pc, opened |-> opened, loaded |-> loaded,
       scraped |-> scraped,
       runOrder |-> runOrder, addArgs |-> addArgs, addTags |-> addTags,
       finishCalls |-> finishCalls, disc |-> disc, phantom |-> phantom,
       events |-> events]

Becomes(st) ==
    /\ suites' = st.suites /\ suite' = st.suite /\ page' = st.page
    /\ timer' = st.timer /\ visited' = st.visited /\ writer' = st.writer
    /\ errors' = st.errors /\ extraction' = st.extraction /\ pc' = st.pc
    /\ opened' = st.opened /\ loaded' = st.loaded /\ runOrder' = st.runOrder
    /\ scraped' = st.scraped
    /\ addArgs' = st.addArgs /\ addTags' = st.addTags
    /\ finishCalls' = st.finishCalls /\ disc' = st.disc
    /\ phantom' = st.phantom /\ events' = st.events

(* --------------------------- suite manager ---------------------------- *)
\* An entry of the history: e is "add" (SuiteManager.add), "run" (suite.run),
\* "complete" (s.complete), "open" (page.open), "done" (the URL's complete
\* callback), "scrapable" or "notScrapable" (what the scrapable predicate
\* gave), "injectJs" (a suite script), "preScrape", "scraper" or "moreUrls"
\* (the hooks evaluated); title is the suite's, n the page's number in the
\* run.
Event(e, title, n) == [e |-> e, title |-> title, n |-> n]

\* SuiteManager.add with unshift for push
MgrAddAtHead(st, s) ==
    [st EXCEPT !.suites = <<s>> \o @,
               !.events = Append(@, Event("add", s.title, 0))]

\* SuiteManager.add
MgrAdd(st, s) ==
    [st EXCEPT !.suites = Append(@, s),
               !.events = Append(@, Event("add", s.title, 0))]

\* phantom.exit(code): the process ends with that status (0 when no code
\* is given) and no later callback runs.
phantomExit(st, code) ==
    [st EXCEPT !.pc = "exited", !.phantom.exits = @ + 1, !.phantom.status = code]

\* fail(msg): console.log('FATAL ERROR: ' + msg); phantom.exit()
fail(st, msg) == phantomExit([st EXCEPT !.phantom.fatal = Append(@, msg)], 0)

\* The callback init hands to setComplete: finish the writer and exit.
Complete(st) ==
    phantomExit([st EXCEPT !.writer = finish(@), !.finishCalls = @ + 1], 0)

\* ScraperSuite.prototype.scrape up to page.open: the callback comes later.
scrape(st, url) ==
    [st EXCEPT !.page = [url |-> url, n |-> Len(st.opened) + 1,
                         pos |-> st.suite.runCounter, state |-> "opening"],
               !.opened = Append(@, url),
               !.events = Append(@, Event("open", st.suite.s.title, Len(st.opened) + 1))]

RECURSIVE MgrRunNext(_)

\* s.complete calling the terminal callback instead of SuiteManager.runNext
SuiteCompleteFinishes(st) ==
    Complete([st EXCEPT !.suite.running = FALSE,
                        !.events = Append(@, Event("complete", st.suite.s.title, 0))])

\* s.complete
SuiteComplete(st) ==
    MgrRunNext([st EXCEPT !.suite.running = FALSE,
                          !.events = Append(@, Event("complete", st.suite.s.title, 0))])

\* runNext as a loop over the URLs that does not wait for a URL to complete
RECURSIVE runNextLoops(_)
runNextLoops(st) ==
    IF st.suite.runCounter < Len(st.suite.s.urls)
    THEN runNextLoops(scrape([st EXCEPT !.suite.runCounter = @ + 1],
                             st.suite.s.urls[st.suite.runCounter + 1]))
    ELSE SuiteComplete(st)

\* the runNext closure of ScraperSuite.prototype.run
runNext(st) ==
    IF st.suite.runCounter < Len(st.suite.s.urls)
    THEN scrape([st EXCEPT !.suite.runCounter = @ + 1],
                st.suite.s.urls[st.suite.runCounter + 1])
    ELSE SuiteComplete(st)

\* ScraperSuite.prototype.run
run(st, s) ==
    runNext([st EXCEPT !.suite = [s |-> s, running |-> TRUE, runCounter |-> 0, i |-> 0],
                       !.runOrder = Append(@, s.title),
                       !.events = Append(@, Event("run", s.title, 0))])

\* SuiteManager.runNext
MgrRunNext(st) ==
    IF st.suites # <<>>
    THEN run([st EXCEPT !.suites = Tail(@)], Head(st.suites))
    ELSE Complete(st)

(* ----------------------------- scrapePage ----------------------------- *)
\* scrapers.forEach(function(scraper) { writer.add(page.evaluate(scraper)) })
RECURSIVE RunScrapers(_, _, _, _)
RunScrapers(st, pg, results, k) ==
    IF k > st.suite.s.opts.scrapers THEN st
    ELSE RunScrapers(
            [st EXCEPT !.writer = add(@, results[k]),
                       !.events = Append(@, Event("scraper", st.suite.s.title, pg.n)),
                       !.addArgs = Append(@, results[k]),
                       !.addTags = Append(@, [suite |-> Len(st.runOrder),
                                              url |-> pg.pos,
                                              open |-> pg.n,
                                              scraper |-> k])],
            pg, results, k + 1)

\* s.opts.loadScript.forEach(page.injectJs) and page.evaluate(s.opts.preScrape)
PrepareScrape(st, pg) ==
    [st EXCEPT !.events =
        @ \o [k \in 1..st.suite.s.opts.loadScript |->
                 Event("injectJs", st.suite.s.title, pg.n)]
          \o <<Event("preScrape", st.suite.s.title, pg.n)>>]

\* scrapePage injecting the suite's scripts before it asks scrapable
scrapePageInjectsFirst(st, pg, how, scrapable, results) ==
    LET st1 == [st EXCEPT !.scraped = Append(@, pg.n),
                          !.extraction = [n |-> pg.n, how |-> how],
                          !.events =
                             @ \o [k \in 1..st.suite.s.opts.loadScript |->
                                      Event("injectJs", st.suite.s.title, pg.n)]
                               \o <<Event(IF scrapable THEN "scrapable" ELSE "notScrapable",
                                          st.suite.s.title, pg.n)>>]
    IN  IF scrapable
        THEN RunScrapers([st1 EXCEPT !.events =
                             Append(@, Event("preScrape", st.suite.s.title, pg.n))],
                         pg, results, 1)
        ELSE st1

\* the scrapePage closure of run, called with the page pg: scrapable is
\* page.evaluate(s.opts.scrapable), results[k] what the k-th scraper returns.
scrapePage(st, pg, how, scrapable, results) ==
    LET st1 == [st EXCEPT !.scraped = Append(@, pg.n),
                          !.extraction = [n |-> pg.n, how |-> how],
                          !.events = Append(@, Event(IF scrapable THEN "scrapable"
                                                                  ELSE "notScrapable",
                                                     st.suite.s.title, pg.n))]
    IN  IF scrapable THEN RunScrapers(PrepareScrape(st1, pg), pg, results, 1) ELSE st1

(* ------------------------------ complete ------------------------------ *)
\* moreUrls.filter(function(url) { return !(url in visited) })
filter(moreUrls, vis) == SelectSeq(moreUrls, LAMBDA url : url \notin vis)

\* Line 414 calls filter and drops the array it returns: the list used
\* afterwards is moreUrls itself.
AfterFilter(moreUrls, vis) == moreUrls

\* the depth test with <= for <
DepthAllowsInclusive(s) ==
    (~s.opts.maxDepthSet \/ s.opts.maxDepth = 0) \/ s.depth <= s.opts.maxDepth

\* !s.opts.maxDepth || s.depth < s.opts.maxDepth
DepthAllows(s) ==
    (~s.opts.maxDepthSet \/ s.opts.maxDepth = 0) \/ s.depth < s.opts.maxDepth

\* the sub-suite without ss.depth = s.depth + 1
SubSuiteKeepsDepth(s, i, moreUrls) ==
    ScraperSuite(s.title \o <<i>>, moreUrls, s.opts)

\* the sub-suite: new ScraperSuite(...) and ss.depth = s.depth + 1
SubSuite(s, i, moreUrls) ==
    [ScraperSuite(s.title \o <<i>>, moreUrls, s.opts) EXCEPT !.depth = s.depth + 1]

\* the complete closure of run: loadedPage is whether a page was passed,
\* more is what page.evaluate(s.opts.moreUrls) returns.
complete(st, loadedPage, more) ==
    LET s == st.suite.s
        st0 == [st EXCEPT !.page.state = "done",
                          !.events = IF loadedPage /\ s.opts.moreUrls
                                     THEN Append(@, Event("moreUrls", s.title, st.page.n))
                                     ELSE @]
        st1 ==
          IF loadedPage /\ s.opts.moreUrls
          THEN IF Truthy(more) /\ DepthAllows(s)
               THEN LET moreUrls == AfterFilter(more.v, st.visited)
                        d == [happened |-> TRUE, candidates |-> more.v,
                              visited |-> st.visited, enqueued |-> moreUrls # <<>>,
                              urls |-> moreUrls, parentDepth |-> s.depth,
                              depth |-> s.depth + 1,
                              maxDepthSet |-> s.opts.maxDepthSet,
                              maxDepth |-> s.opts.maxDepth]
                    IN  IF Len(moreUrls) > 0
                        THEN MgrAdd([st0 EXCEPT !.suite.i = @ + 1, !.disc = d],
                                    SubSuite(s, st.suite.i, moreUrls))
                        ELSE [st0 EXCEPT !.disc = d]
               ELSE [st0 EXCEPT !.disc = [NoDisc EXCEPT !.happened = TRUE,
                                             !.candidates = more.v,
                                             !.visited = st.visited,
                                             !.parentDepth = s.depth,
                                             !.maxDepthSet = s.opts.maxDepthSet,
                                             !.maxDepth = s.opts.maxDepth]]
          ELSE st0
    IN  runNext(st1)

(* ------------------------- callbacks of scrape ------------------------ *)
\* scrape's callbacks calling the complete they were given, for the URL
\* opened as the n-th page: complete(page) or complete(false)
urlComplete(st, n, loadedPage, more) ==
    complete([st EXCEPT !.events = Append(@, Event("done", st.suite.s.title, n))],
             loadedPage, more)

\* the timeout test with >= for >
TimedOutAtLimit(elapsed, limit) == elapsed >= limit

\* elapsed > config.timeoutLimit
TimedOut(elapsed, limit) == elapsed > limit

\* the open callback going on to the next URL while the poll is pending
OnOpenRunsOn(st, status, ready, scrapable, results, more) ==
    IF status = "success"
    THEN LET st1 == [st EXCEPT !.visited = @ \cup {st.page.url},
                               !.loaded = @ \cup {st.page.n}]
         IN  IF ready
             THEN urlComplete(scrapePage(st1, st.page, "immediate", scrapable, results),
                              st.page.n, TRUE, more)
             ELSE urlComplete([st1 EXCEPT !.page.state = "polling",
                                          !.timer = [armed |-> TRUE, elapsed |-> 0,
                                                     page |-> [st.page EXCEPT !.state = "polling"]]],
                              st.page.n, TRUE, more)
    ELSE urlComplete([st EXCEPT !.errors = Append(@, st.page.url)], st.page.n, FALSE, more)

\* the open callback marking the URL visited before it looks at the status
OnOpenMarksFirst(st, status, ready, scrapable, results, more) ==
    LET st1 == [st EXCEPT !.visited = @ \cup {st.page.url}]
    IN  IF status = "success"
        THEN LET st2 == [st1 EXCEPT !.loaded = @ \cup {st.page.n}]
             IN  IF ready
                 THEN urlComplete(scrapePage(st2, st.page, "immediate", scrapable, results),
                                  st.page.n, TRUE, more)
                 ELSE [st2 EXCEPT !.page.state = "polling",
                                  !.timer = [armed |-> TRUE, elapsed |-> 0,
                                             page |-> [st.page EXCEPT !.state = "polling"]]]
        ELSE urlComplete([st1 EXCEPT !.errors = Append(@, st.page.url)],
                         st.page.n, FALSE, more)

\* the callback of page.open
OnOpen(st, status, ready, scrapable, results, more) ==
    IF status = "success"
    THEN LET st1 == [st EXCEPT !.visited = @ \cup {st.page.url},
                               !.loaded = @ \cup {st.page.n}]
         IN  IF ready
             THEN urlComplete(scrapePage(st1, st.page, "immediate", scrapable, results),
                              st.page.n, TRUE, more)
             ELSE [st1 EXCEPT !.page.state = "polling",
                              !.timer = [armed |-> TRUE, elapsed |-> 0,
                                         page |-> [st.page EXCEPT !.state = "polling"]]]
    ELSE urlComplete([st EXCEPT !.errors = Append(@, st.page.url)], st.page.n, FALSE, more)

\* window.clearInterval(timeoutId): the timer and its closure are gone
NoTimer == [armed |-> FALSE, elapsed |-> 0, page |-> NoPage]

\* the interval function without its clearInterval
OnTickKeepsTimer(st, ready, scrapable, results, more) ==
    IF ready \/ TimedOut(st.timer.elapsed, st.config.timeoutLimit)
    THEN urlComplete(scrapePage(st, st.timer.page, IF ready THEN "ready" ELSE "timeout",
                                scrapable, results),
                     st.timer.page.n, TRUE, more)
    ELSE [st EXCEPT !.timer.elapsed = @ + st.config.timeoutInterval]

\* the function given to window.setInterval; its page and elapsed are the
\* closure's
OnTick(st, ready, scrapable, results, more) ==
    IF ready \/ TimedOut(st.timer.elapsed, st.config.timeoutLimit)
    THEN urlComplete([scrapePage(st, st.timer.page, IF ready THEN "ready" ELSE "timeout",
                                 scrapable, results)
                         EXCEPT !.timer = NoTimer],
                     st.timer.page.n, TRUE, more)
    ELSE [st EXCEPT !.timer.elapsed = @ + st.config.timeoutInterval]

(* -------------------------------- init -------------------------------- *)
RECURSIVE AddConfigured(_, _, _)
AddConfigured(st, cfg, k) ==
    IF k > Len(cfg) THEN st
    ELSE AddConfigured(MgrAdd(st, ScraperSuite(<<k - 1>>, cfg[k].urls, cfg[k].opts)),
                       cfg, k + 1)

\* the registries: the keys of loggers and of writers
Loggers == {"base", "file", "none", "stdout"}
Writers == {"base", "file", "itemfile", "stdout"}

\* The three requirement checks of init.  When phantom.exit returns to its
\* caller (exitReturns) the checks after a failed one still run.
CheckRequirements(st, exitReturns) ==
    LET st1 == IF Len(st.configured) = 0 THEN fail(st, "No suites configured") ELSE st
        st2 == IF st1.phantom.exits > 0 /\ ~exitReturns THEN st1
               ELSE IF st.config.log \notin Loggers
                    THEN fail(st1, "Could not find logger") ELSE st1
    IN  IF st2.phantom.exits > 0 /\ ~exitReturns THEN st2
        ELSE IF st.config.writer \notin Writers
             THEN fail(st2, "Could not find writer") ELSE st2

\* init: check the requirements, make the logger and the writer, make all
\* suites, start the suite manager.  phantom.exit either ends the script at
\* once or returns (exitReturns); new loggers[config.log]() and
\* new writers[config.writer](log) throw for a name that is not registered,
\* and the exception ends the script.
init(st, exitReturns) ==
    LET st1 == CheckRequirements(st, exitReturns)
    IN  IF st1.phantom.exits > 0 /\ ~exitReturns THEN st1
        ELSE IF st.config.log \notin Loggers \/ st.config.writer \notin Writers THEN st1
        ELSE LET st2 == MgrRunNext(AddConfigured([st1 EXCEPT !.pc = "running"],
                                                 st.configured, 1))
             IN  IF st2.phantom.exits > 0 THEN [st2 EXCEPT !.pc = "exited"] ELSE st2

(* ---------------------- what the pages may answer --------------------- *)
\* The k-th scraper's result on the page opened as the n-th page of the run:
\* nothing, the number 0, one item or two, the items numbered by n and k.
Result(shape, n, k) ==
    CASE shape = "undefined" -> Undefined
      [] shape = "zero" -> Value(0)
      [] shape = "single" -> Value(100 * n + 10 * k + 1)
      [] shape = "pair" -> Array(<<100 * n + 10 * k + 1, 100 * n + 10 * k + 2>>)

ShapeVectors == { <<"single", "pair">>, <<"zero", "undefined">> }

Results(n) == { [k \in 1..2 |-> Result(sv[k], n, k)] : sv \in ShapeVectors }

MoreResults == { Undefined, Array(<<>>), Array(<<"a", "b", "c">>) }

\* What the link-discovery hook may return on the page of url: the page "c"
\* links to itself only.
MoreResultsOn(url) == IF url = "c" THEN {Array(<<"c">>)} ELSE MoreResults

(* ------------------------------ the run ------------------------------- *)
Init ==
    /\ config \in Configs
    /\ configured \in ConfiguredSuites
    /\ suites = <<>>
    /\ suite = [s |-> NoSuite, running |-> FALSE, runCounter |-> 0, i |-> 0]
    /\ page = NoPage
    /\ timer = NoTimer
    /\ visited = {}
    /\ writer = NewWriter(config.format, config.batchSize)
    /\ errors = <<>>
    /\ extraction = [n |-> 0, how |-> "none"]
    /\ pc = "start"
    /\ opened = <<>>
    /\ loaded = {}
    /\ scraped = <<>>
    /\ runOrder = <<>>
    /\ addArgs = <<>>
    /\ addTags = <<>>
    /\ finishCalls = 0
    /\ disc = NoDisc
    /\ phantom = NoPhantom
    /\ events = <<>>

\* A handler's step, as long as the run has opened at most MaxOpens pages.
Step(next) ==
    \E st \in {next} :
       Len(st.opened) <= MaxOpens /\ Becomes(st) /\ UNCHANGED <<config, configured>>

Start ==
    /\ pc = "start"
    /\ \E exitReturns \in BOOLEAN : Step(init(St, exitReturns))

NoResults == <<Undefined, Undefined>>

\* What the handlers read from the page n when they extract: the scrapable
\* predicate, the scrapers' results and the link-discovery hook's result.
Extracts(n) ==
    LET mores == IF suite.s.opts.moreUrls THEN MoreResultsOn(opened[n]) ELSE {Undefined}
    IN  [scrapable : {TRUE}, results : Results(n), more : mores]
        \cup [scrapable : {FALSE}, results : {NoResults}, more : mores]

OpenFails ==
    /\ pc = "running"
    /\ page.state = "opening"
    /\ Step(OnOpen(St, "fail", FALSE, FALSE, NoResults, Undefined))

OpenNotReady ==
    /\ pc = "running"
    /\ page.state = "opening"
    /\ Step(OnOpen(St, "success", FALSE, FALSE, NoResults, Undefined))

OpenReady ==
    /\ pc = "running"
    /\ page.state = "opening"
    /\ \E in \in Extracts(page.n) :
          Step(OnOpen(St, "success", TRUE, in.scrapable, in.results, in.more))

TickWaits ==
    /\ pc = "running"
    /\ timer.armed
    /\ ~TimedOut(timer.elapsed, config.timeoutLimit)
    /\ Step(OnTick(St, FALSE, FALSE, NoResults, Undefined))

TickExtracts ==
    /\ pc = "running"
    /\ timer.armed
    /\ \E ready \in BOOLEAN :
         /\ ready \/ TimedOut(timer.elapsed, config.timeoutLimit)
         /\ \E in \in Extracts(timer.page.n) :
               Step(OnTick(St, ready, in.scrapable, in.results, in.more))

OpenCallback == OpenFails \/ OpenNotReady \/ OpenReady

PollTick == TickWaits \/ TickExtracts

Next == Start \/ OpenCallback \/ PollTick

Spec == Init /\ [][Next]_vars

(* ------------------ the run with every depth limited ------------------ *)
\* Suites handed to pjs.addSuite that all set a maxDepth of at least 1; the
\* page "c" keeps linking to itself, so every discovery on it returns a
\* URL already visited.
DepthLimitedSuites ==
    { <<[urls |-> <<"c">>, opts |-> Opts(1, TRUE, TRUE, 1)]>>,
      <<[urls |-> <<"c">>, opts |-> Opts(0, TRUE, TRUE, 2)]>>,
      <<[urls |-> <<"c">>, opts |-> Opts(0, TRUE, TRUE, 1)],
        [urls |-> <<"b">>, opts |-> Opts(0, FALSE, TRUE, 1)]>> }

DepthLimitedInit ==
    /\ config \in {c \in Configs : c.batchSize = 0}
    /\ configured \in DepthLimitedSuites
    /\ suites = <<>>
    /\ suite = [s |-> NoSuite, running |-> FALSE, runCounter |-> 0, i |-> 0]
    /\ page = NoPage
    /\ timer = NoTimer
    /\ visited = {}
    /\ writer = NewWriter(config.format, config.batchSize)
    /\ errors = <<>>
    /\ extraction = [n |-> 0, how |-> "none"]
    /\ pc = "start"
    /\ opened = <<>>
    /\ loaded = {}
    /\ scraped = <<>>
    /\ runOrder = <<>>
    /\ addArgs = <<>>
    /\ addTags = <<>>
    /\ finishCalls = 0
    /\ disc = NoDisc
    /\ phantom = NoPhantom
    /\ events = <<>>

\* PhantomJS runs the script, calls every page.open callback and keeps
\* firing an interval timer until it is cleared; one of these at most is
\* pending at a time, so the pending one is eventually run.
DepthLimitedSpec == DepthLimitedInit /\ [][Next]_vars /\ WF_vars(Next)

(* ------------------------ the script from its top --------------------- *)
\* A configuration file named on the command line: found is whether
\* phantom.injectJs can load it; when it runs it calls pjs.config with the
\* log and writer names it sets ("" for a name it leaves alone) and
\* pjs.addSuite with its suites.
ConfigFile(found, log, wr, ss) == [found |-> found, log |-> log, writer |-> wr, suites |-> ss]

MissingFile == ConfigFile(FALSE, "", "", <<>>)

\* pjs.config({log: .., writer: ..}): extend skips what is undefined
pjsConfig(cfg, file) ==
    [cfg EXCEPT !.log = IF file.log # "" THEN file.log ELSE @,
                !.writer = IF file.writer # "" THEN file.writer ELSE @]

\* pjs.addSuite
addSuite(ss, more) == ss \o more

\* phantom.injectJs(configFile) of a file that is found
injectJs(st, file) ==
    [st EXCEPT !.config = pjsConfig(@, file), !.configured = addSuite(@, file.suites)]

\* phantom.args.forEach(...) from the k-th file on
RECURSIVE LoadConfigFiles(_, _, _)
LoadConfigFiles(st, k, exitReturns) ==
    IF k > Len(st.phantom.args) THEN st
    ELSE IF st.phantom.args[k].found
         THEN LoadConfigFiles(injectJs(st, st.phantom.args[k]), k + 1, exitReturns)
         ELSE LET st1 == fail(st, "Config file not found")
              IN  IF exitReturns THEN LoadConfigFiles(st1, k + 1, exitReturns) ELSE st1

\* The top-level statements of the script: the usage check, the loading of
\* the configuration files and the call of pjs.init, which stands after the
\* if statement and so is reached on both of its branches.
Main(st, exitReturns) ==
    LET st1 == IF Len(st.phantom.args) = 0
               THEN phantomExit([st EXCEPT !.phantom.usage = TRUE], 0)
               ELSE LoadConfigFiles(st, 1, exitReturns)
    IN  IF st1.phantom.exits > 0 /\ ~exitReturns THEN st1 ELSE init(st1, exitReturns)

SuiteAB == [urls |-> <<"a", "b">>, opts |-> Opts(1, FALSE, FALSE, 0)]
SuiteHook == [urls |-> <<"a">>, opts |-> Opts(1, TRUE, TRUE, 1)]

ArgLists ==
    { <<>>,
      <<MissingFile>>,
      <<ConfigFile(TRUE, "", "", <<SuiteAB>>)>>,
      <<ConfigFile(TRUE, "none", "", <<SuiteHook>>)>>,
      <<ConfigFile(TRUE, "", "", <<>>)>>,
      <<ConfigFile(TRUE, "nolog", "", <<SuiteAB>>)>>,
      <<ConfigFile(TRUE, "", "nowriter", <<SuiteAB>>)>>,
      <<ConfigFile(TRUE, "nolog", "nowriter", <<>>)>>,
      <<MissingFile, ConfigFile(TRUE, "", "", <<SuiteAB>>)>>,
      <<ConfigFile(TRUE, "file", "", <<>>), ConfigFile(TRUE, "", "", <<SuiteAB>>)>> }

StartupInit ==
    /\ config = [timeoutInterval |-> DefaultTimeoutInterval,
                 timeoutLimit |-> 2 * DefaultTimeoutInterval,
                 batchSize |-> 0, format |-> "json",
                 log |-> "stdout", writer |-> "stdout"]
    /\ configured = <<>>
    /\ suites = <<>>
    /\ suite = [s |-> NoSuite, running |-> FALSE, runCounter |-> 0, i |-> 0]
    /\ page = NoPage
    /\ timer = NoTimer
    /\ visited = {}
    /\ writer = NewWriter(config.format, config.batchSize)
    /\ errors = <<>>
    /\ extraction = [n |-> 0, how |-> "none"]
    /\ pc = "start"
    /\ opened = <<>>
    /\ loaded = {}
    /\ scraped = <<>>
    /\ runOrder = <<>>
    /\ addArgs = <<>>
    /\ addTags = <<>>
    /\ finishCalls = 0
    /\ disc = NoDisc
    /\ \E args \in ArgLists : phantom = [NoPhantom EXCEPT !.args = args]
    /\ events = <<>>

Startup ==
    /\ pc = "start"
    /\ \E exitReturns \in BOOLEAN :
          \E st \in {Main(St, exitReturns)} :
             /\ Becomes(st)
             /\ config' = st.config
             /\ configured' = st.configured

StartupNext == Startup \/ OpenCallback \/ PollTick

StartupSpec == StartupInit /\ [][StartupNext]_vars

(* ------------------- the writer driven on its own --------------------- *)
AddArgs == {Undefined, Value(0), Value(1), Value(12), Array(<<>>),
            Array(<<2, 3>>), Array(<<0, 4, 5>>)}

WriterInit ==
    /\ \E f \in Formats, b \in 0..MaxBatch : writer = NewWriter(f, b)
    /\ pc = "writer"
    /\ addArgs = <<>>
    /\ finishCalls = 0
    /\ config = [timeoutInterval |-> DefaultTimeoutInterval,
                 timeoutLimit |-> DefaultTimeoutLimit,
                 batchSize |-> writer.batchSize, format |-> writer.format,
                 log |-> "stdout", writer |-> "stdout"]
    /\ configured = <<>>
    /\ suites = <<>>
    /\ suite = [s |-> NoSuite, running |-> FALSE, runCounter |-> 0, i |-> 0]
    /\ page = NoPage
    /\ timer = NoTimer
    /\ visited = {}
    /\ errors = <<>>
    /\ extraction = [n |-> 0, how |-> "none"]
    /\ opened = <<>>
    /\ loaded = {}
    /\ scraped = <<>>
    /\ runOrder = <<>>
    /\ addTags = <<>>
    /\ disc = NoDisc
    /\ phantom = NoPhantom
    /\ events = <<>>

WriterAdd ==
    /\ pc = "writer"
    /\ finishCalls = 0
    /\ Len(addArgs) < MaxAdds
    /\ \E i \in AddArgs :
        /\ writer' = add(writer, i)
        /\ addArgs' = Append(addArgs, i)
    /\ UNCHANGED <<pc, finishCalls>>
    /\ UNCHANGED crawlVars

WriterFinish ==
    /\ pc = "writer"
    /\ finishCalls = 0
    /\ writer' = finish(writer)
    /\ finishCalls' = finishCalls + 1
    /\ UNCHANGED <<pc, addArgs>>
    /\ UNCHANGED crawlVars

WriterNext == WriterAdd \/ WriterFinish

WriterSpec == WriterInit /\ [][WriterNext]_vars

(* ----------------------- the one-file-per-item writer ----------------- *)
\* config.outFile as the source sets it
outFile == <<"pjscrape_out.txt">>

\* phantom.saveToFile(s, name, mode) on the files, a function from the names
\* of the files that exist to their contents: mode 'w' replaces, 'a' appends
saveToFile(files, str, name, mode) ==
    IF mode = "a" /\ name \in DOMAIN files
    THEN [files EXCEPT ![name] = @ \o str]
    ELSE (name :> str) @@ files

\* writers.itemfile: its closure variables and the files it has written
NewItemfile(format) == [count |-> 0, format |-> format, files |-> <<>>]

\* the forEach of itemfile's add over the formatted items from the k-th on:
\* filename is computed from count and count incremented; the file written
\* is config.outFile
RECURSIVE itemfileWrite(_, _, _)
itemfileWrite(w, strs, k) ==
    IF k > Len(strs) THEN w
    ELSE LET filename == outFile \o <<"-">> \o Digits(w.count)
         IN  itemfileWrite([w EXCEPT !.count = @ + 1,
                                     !.files = saveToFile(@, strs[k], outFile, "w")],
                           strs, k + 1)

\* itemfile's add
itemfileAdd(w, items) ==
    IF Truthy(items)
    THEN LET a == arrify(items)
         IN  itemfileWrite(w, [k \in 1..Len(a) |-> formatterFormat(w.format, a[k])], 1)
    ELSE w

\* itemfile's finish: function() {}
itemfileFinish(w) == w

ItemfileInit ==
    /\ \E f \in Formats : writer = NewItemfile(f)
    /\ pc = "itemfile"
    /\ addArgs = <<>>
    /\ finishCalls = 0
    /\ config = [timeoutInterval |-> DefaultTimeoutInterval,
                 timeoutLimit |-> DefaultTimeoutLimit,
                 batchSize |-> 0, format |-> writer.format,
                 log |-> "stdout", writer |-> "itemfile"]
    /\ configured = <<>>
    /\ suites = <<>>
    /\ suite = [s |-> NoSuite, running |-> FALSE, runCounter |-> 0, i |-> 0]
    /\ page = NoPage
    /\ timer = NoTimer
    /\ visited = {}
    /\ errors = <<>>
    /\ extraction = [n |-> 0, how |-> "none"]
    /\ opened = <<>>
    /\ loaded = {}
    /\ scraped = <<>>
    /\ runOrder = <<>>
    /\ addTags = <<>>
    /\ disc = NoDisc
    /\ phantom = NoPhantom
    /\ events = <<>>

ItemfileAdd ==
    /\ pc = "itemfile"
    /\ finishCalls = 0
    /\ Len(addArgs) < MaxAdds
    /\ \E i \in AddArgs :
        /\ writer' = itemfileAdd(writer, i)
        /\ addArgs' = Append(addArgs, i)
    /\ UNCHANGED <<pc, finishCalls>>
    /\ UNCHANGED crawlVars

ItemfileFinish ==
    /\ pc = "itemfile"
    /\ finishCalls = 0
    /\ writer' = itemfileFinish(writer)
    /\ finishCalls' = finishCalls + 1
    /\ UNCHANGED <<pc, addArgs>>
    /\ UNCHANGED crawlVars

ItemfileNext == ItemfileAdd \/ ItemfileFinish

ItemfileSpec == ItemfileInit /\ [][ItemfileNext]_vars

(* --------------------------- the csv formatter ------------------------ *)
\* A cell value: a number or a string.  An item the csv formatter is given:
\* a list of values, an object (its keys in getKeys order, cells[k] the
\* value of keys[k]) or a single value that is no object.
Num(n) == [t |-> "num", n |-> n, s |-> <<>>]
Str(str) == [t |-> "str", n |-> 0, s |-> str]

List(cells) == [kind |-> "list", keys |-> <<>>, cells |-> cells]
Object(keys, cells) == [kind |-> "object", keys |-> keys, cells |-> cells]
Scalar(v) == [kind |-> "scalar", keys |-> <<>>, cells |-> <<v>>]

\* JavaScript truthiness of a value: 0 and '' are falsy
TruthyValue(v) == IF v.t = "num" THEN v.n # 0 ELSE v.s # <<>>

\* JSON.stringify of a string's characters: the quote and the backslash
\* are escaped with a backslash
RECURSIVE EscapeJSON(_)
EscapeJSON(str) ==
    IF str = <<>> THEN <<>>
    ELSE (IF str[1] \in {"\"", "\\"} THEN <<"\\", str[1]>> ELSE <<str[1]>>)
         \o EscapeJSON(Tail(str))

\* JSON.stringify of a number or a string
stringify(v) ==
    IF v.t = "num" THEN Digits(v.n) ELSE <<"\"">> \o EscapeJSON(v.s) \o <<"\"">>

\* .replace(/\\"/g, '""'): every backslash that stands before a quote is
\* replaced, with that quote, by two quotes, from left to right
RECURSIVE replaceEscapedQuotes(_)
replaceEscapedQuotes(str) ==
    IF Len(str) < 2 THEN str
    ELSE IF str[1] = "\\" /\ str[2] = "\""
         THEN <<"\"", "\"">> \o replaceEscapedQuotes(SubSeq(str, 3, Len(str)))
         ELSE <<str[1]>> \o replaceEscapedQuotes(Tail(str))

csvDelimiter == <<"\r\n">>

\* makeRow: a.map(JSON.stringify).join(',')
makeRow(a) == join([k \in 1..Len(a) |-> stringify(Str(a[k]))], <<",">>)

\* config.csvFields, or nothing
NoFields == [set |-> FALSE, v |-> <<>>]
Fields(v) == [set |-> TRUE, v |-> v]

\* f.start
csvStart(fields) == IF fields.set THEN makeRow(fields.v) \o csvDelimiter ELSE <<>>

\* item[field] || ''
Lookup(item, field) ==
    IF \E k \in 1..Len(item.keys) : item.keys[k] = field /\ TruthyValue(item.cells[k])
    THEN item.cells[CHOOSE k \in 1..Len(item.keys) : item.keys[k] = field]
    ELSE Str(<<>>)

\* f.format of the csv formatter with the closure variable fields: the
\* fields afterwards and the string returned.  For an item that is no
\* object the function returns undefined, which join renders as ''.  The
\* cells new Array(n) adds are holes: map skips them and join renders ''.
csvFormat(fields, item) ==
    IF item.kind = "scalar" THEN [fields |-> fields, str |-> <<>>]
    ELSE LET fs == IF fields.set THEN fields.v
                   ELSE IF item.kind = "list"
                        THEN [i \in 1..Len(item.cells) |-> <<"Column ">> \o Digits(i)]
                        ELSE item.keys
             out == IF fields.set THEN <<>> ELSE makeRow(fs) \o csvDelimiter
             row == IF item.kind = "object"
                    THEN [k \in 1..Len(fs) |-> Lookup(item, fs[k])]
                    ELSE item.cells
             cut == IF Len(row) > Len(fs) THEN SubSeq(row, 1, Len(fs)) ELSE row
             cells == [k \in 1..Len(cut) |-> replaceEscapedQuotes(stringify(cut[k]))]
                      \o [k \in 1..(Len(fs) - Len(row)) |-> <<>>]
         IN  [fields |-> Fields(fs), str |-> out \o join(cells, <<",">>)]

\* batch.map(formatter.format) from the k-th item on, the formatter's fields
\* going from one call to the next
RECURSIVE csvFormatBatch(_, _)
csvFormatBatch(fields, batch) ==
    IF batch = <<>> THEN [fields |-> fields, strs |-> <<>>]
    ELSE LET first == csvFormat(fields, batch[1])
             rest == csvFormatBatch(first.fields, Tail(batch))
         IN  [fields |-> rest.fields, strs |-> <<first.str>> \o rest.strs]

\* writers.base with the csv formatter: the writer's closure variables, the
\* formatter's start and fields, and the strings handed to w.write
NewCsvWriter(csvFields, batchSize) ==
    [count |-> 0, items |-> <<>>, batchSize |-> batchSize, format |-> "csv",
     firstWrite |-> TRUE, lastWrite |-> FALSE, out |-> <<>>,
     start |-> csvStart(csvFields), fields |-> csvFields]

\* writeBatch with the csv formatter (its end is '')
csvWriteBatch(w, batch) ==
    LET f == csvFormatBatch(w.fields, batch)
        str == (IF w.firstWrite THEN w.start ELSE csvDelimiter)
               \o join(f.strs, csvDelimiter)
    IN  [w EXCEPT !.out = Append(@, str), !.firstWrite = FALSE, !.fields = f.fields]

\* add with the csv formatter; i is the list of items a scraper returned
csvAdd(w, i) ==
    LET all == w.items \o i
        w1 == [w EXCEPT !.items = all, !.count = @ + Len(i)]
    IN  IF NeedsFlush(w.batchSize, Len(all))
        THEN csvWriteBatch([w1 EXCEPT !.items = SubSeq(all, w.batchSize + 1, Len(all))],
                           SubSeq(all, 1, w.batchSize))
        ELSE w1

\* finish with the csv formatter
csvFinish(w) == csvWriteBatch([w EXCEPT !.lastWrite = TRUE], w.items)

\* the items the scrapers may return when the output is csv
CsvItems ==
    { List(<<Num(1)>>),
      List(<<Str(<<"a">>), Num(2)>>),
      List(<<Num(1), Str(<<"b", ",", "c">>), Num(3)>>),
      List(<<Str(<<"q", "\"">>), Num(4)>>),
      List(<<Str(<<"b", "\\">>), Num(5)>>),
      Object(<<<<"x">>, <<"y">>>>, <<Num(1), Str(<<"a">>)>>),
      Object(<<<<"x">>>>, <<Num(7)>>),
      Object(<<<<"z">>, <<"y">>>>, <<Num(0), Num(8)>>),
      Scalar(Num(9)) }

CsvInit ==
    /\ \E fs \in {NoFields, Fields(<<<<"x">>, <<"y">>>>)}, b \in {0, 1} :
          writer = NewCsvWriter(fs, b)
    /\ pc = "csv"
    /\ addArgs = <<>>
    /\ finishCalls = 0
    /\ config = [timeoutInterval |-> DefaultTimeoutInterval,
                 timeoutLimit |-> DefaultTimeoutLimit,
                 batchSize |-> writer.batchSize, format |-> "csv",
                 log |-> "stdout", writer |-> "stdout"]
    /\ configured = <<>>
    /\ suites = <<>>
    /\ suite = [s |-> NoSuite, running |-> FALSE, runCounter |-> 0, i |-> 0]
    /\ page = NoPage
    /\ timer = NoTimer
    /\ visited = {}
    /\ errors = <<>>
    /\ extraction = [n |-> 0, how |-> "none"]
    /\ opened = <<>>
    /\ loaded = {}
    /\ scraped = <<>>
    /\ runOrder = <<>>
    /\ addTags = <<>>
    /\ disc = NoDisc
    /\ phantom = NoPhantom
    /\ events = <<>>

CsvAdd ==
    /\ pc = "csv"
    /\ finishCalls = 0
    /\ Len(addArgs) < MaxRows
    /\ \E it \in CsvItems :
        /\ writer' = csvAdd(writer, <<it>>)
        /\ addArgs' = Append(addArgs, it)
    /\ UNCHANGED <<pc, finishCalls>>
    /\ UNCHANGED crawlVars

CsvFinish ==
    /\ pc = "csv"
    /\ finishCalls = 0
    /\ writer' = csvFinish(writer)
    /\ finishCalls' = finishCalls + 1
    /\ UNCHANGED <<pc, addArgs>>
    /\ UNCHANGED crawlVars

CsvNext == CsvAdd \/ CsvFinish

CsvSpec == CsvInit /\ [][CsvNext]_vars

(* ------------------ expected output of the base writer ---------------- *)
RECURSIVE AllAdded(_)
AllAdded(args) ==
    IF args = <<>> THEN <<>>
    ELSE (IF isArray(args[1]) \/ Truthy(args[1]) THEN args[1].v ELSE <<>>)
         \o AllAdded(Tail(args))

FramedJoin(format, its) ==
    formatterStart(format)
    \o join([k \in 1..Len(its) |-> formatterFormat(format, its[k])],
            formatterDelimiter(format))
    \o formatterEnd(format)

IsDigit(c) == c \in {"0", "1", "2", "3", "4", "5", "6", "7", "8", "9"}
DigitValue(c) == CHOOSE d \in 0..9 : DigitChar(d) = c

\* A JSON number without sign, fraction or exponent: no leading zero.
IsNumber(s) == /\ s # <<>>
               /\ \A k \in 1..Len(s) : IsDigit(s[k])
               /\ (Len(s) > 1 => s[1] # "0")

RECURSIVE NumberValue(_)
NumberValue(s) == IF Len(s) = 1 THEN DigitValue(s[1])
                  ELSE 10 * NumberValue(SubSeq(s, 1, Len(s) - 1)) + DigitValue(s[Len(s)])

\* The pieces of s between commas (one piece when s has no comma).
RECURSIVE SplitCommas(_)
SplitCommas(s) ==
    IF \A k \in 1..Len(s) : s[k] # "," THEN <<s>>
    ELSE LET p == CHOOSE k \in 1..Len(s) : s[k] = "," /\ \A j \in 1..(k - 1) : s[j] # ","
         IN  <<SubSeq(s, 1, p - 1)>> \o SplitCommas(SubSeq(s, p + 1, Len(s)))

\* JSON.parse restricted to arrays of such numbers.
ParseJSON(s) ==
    IF Len(s) < 2 \/ s[1] # "[" \/ s[Len(s)] # "]" THEN [ok |-> FALSE, v |-> <<>>]
    ELSE LET body == SubSeq(s, 2, Len(s) - 1)
             parts == SplitCommas(body)
         IN  IF body = <<>> THEN [ok |-> TRUE, v |-> <<>>]
             ELSE IF \A k \in 1..Len(parts) : IsNumber(parts[k])
                  THEN [ok |-> TRUE, v |-> [k \in 1..Len(parts) |-> NumberValue(parts[k])]]
                  ELSE [ok |-> FALSE, v |-> <<>>]

Occurrences(c, s) == Cardinality({k \in 1..Len(s) : s[k] = c})

IsPrefix(p, s) == Len(p) <= Len(s) /\ SubSeq(s, 1, Len(p)) = p
IsSuffix(p, s) == Len(p) <= Len(s) /\ SubSeq(s, Len(s) - Len(p) + 1, Len(s)) = p

(* C4: once finish has run, the strings written, concatenated in order,    *)
(* are start + the added items formatted and joined by the delimiter + end;*)
(* every delimiter written so far stands between two items; JSON output    *)
(* parses as the array of the added items.                                 *)
C4_OutputIsFramedJoin ==
    LET text == Concat(writer.out)
        its == AllAdded(addArgs)
    IN  /\ (writer.format = "json" =>
              \A k \in 1..Len(text) :
                 text[k] = "," => /\ 1 < k /\ k < Len(text)
                                  /\ IsDigit(text[k - 1]) /\ IsDigit(text[k + 1]))
        /\ (finishCalls = 1 =>
              /\ text = FramedJoin(writer.format, its)
              /\ (writer.format = "json" => ParseJSON(text) = [ok |-> TRUE, v |-> its]))

C4_Witness ==
    /\ finishCalls = 1
    /\ writer.format = "json"
    /\ writer.batchSize = 2
    /\ Len(writer.out) >= 3
    /\ Len(AllAdded(addArgs)) >= 5
    /\ Undefined \in {addArgs[k] : k \in 1..Len(addArgs)}

(* C5: the start token is written exactly once, as the prefix of the first *)
(* write; the end token exactly once, as the suffix of the write finish    *)
(* makes; no write made before finish holds the end token.                 *)
C5_FramingTokensOnce ==
    LET out == writer.out
        text == Concat(out)
    IN  /\ (out # <<>> => IsPrefix(formatterStart(writer.format), out[1]))
        /\ (finishCalls = 0 /\ writer.format = "json" => Occurrences("]", text) = 0)
        /\ (writer.format = "json" =>
               Occurrences("[", text) = (IF out = <<>> THEN 0 ELSE 1))
        /\ (finishCalls = 1 =>
               /\ out # <<>>
               /\ IsSuffix(formatterEnd(writer.format), out[Len(out)])
               /\ (writer.format = "json" =>
                      /\ Occurrences("]", text) = 1
                      /\ \A k \in 1..(Len(out) - 1) : Occurrences("]", out[k]) = 0))

C5_Witness ==
    /\ finishCalls = 1
    /\ writer.format = "json"
    /\ Len(writer.out) >= 2
    /\ writer.out[1][1] = "["

\* What an add call with the argument i must do to the writer w to give w2
\* when every call checks the threshold: one write at most, made exactly
\* when the buffer after appending is longer than the threshold, of the
\* oldest batchSize items, the rest staying buffered.
AddFlushesOneBatch(w, i, w2) ==
    LET all == w.items \o AllAdded(<<i>>)
        B == w.batchSize
    IN  IF B # 0 /\ Len(all) > B
        THEN /\ Len(w2.out) = Len(w.out) + 1
             /\ w2.out[Len(w2.out)] =
                   (IF w.firstWrite THEN formatterStart(w.format)
                                    ELSE formatterDelimiter(w.format))
                   \o join([k \in 1..B |-> formatterFormat(w.format, all[k])],
                           formatterDelimiter(w.format))
             /\ SubSeq(w2.out, 1, Len(w.out)) = w.out
             /\ w2.items = SubSeq(all, B + 1, Len(all))
        ELSE w2.out = w.out /\ w2.items = all

(* C13 as stated: every add call flushes exactly when the buffer after     *)
(* appending is longer than the threshold B, one batch of the B oldest     *)
(* items, the rest staying buffered; without a threshold add never writes. *)
C13_EveryAddFlushesOneBatch ==
    [][addArgs' # addArgs =>
          AddFlushesOneBatch(writer, addArgs'[Len(addArgs')], writer')]_vars

(* C13 amended: an add call with a truthy argument flushes exactly when    *)
(* the buffer after appending is longer than the threshold B, one batch of *)
(* the B oldest items in order, the rest staying buffered in order, even   *)
(* when more than B remain; an add call with a falsy argument changes      *)
(* nothing and writes nothing; without a threshold add never writes.       *)
C13_TruthyAddFlushesOneBatch ==
    [][addArgs' # addArgs =>
          LET i == addArgs'[Len(addArgs')]
          IN  IF Truthy(i) THEN AddFlushesOneBatch(writer, i, writer')
                           ELSE writer' = writer]_vars

C13_Witness ==
    /\ finishCalls = 0
    /\ writer.batchSize = 1
    /\ Len(writer.out) >= 2
    /\ Len(writer.items) > writer.batchSize
    /\ Len(addArgs) >= 3
    /\ ~Truthy(addArgs[Len(addArgs)])

(* ----------------------------- the crawl ------------------------------ *)
Range(q) == {q[k] : k \in 1..Len(q)}

NoDuplicates(q) == \A j, k \in 1..Len(q) : j # k => q[j] # q[k]

\* every suite that exists: the queued ones and the one that runs or ran last
AllSuites == Range(suites) \cup (IF suite.s.title # <<>> THEN {suite.s} ELSE {})

\* the items written so far, read back from the JSON text
WrittenItems ==
    LET text == Concat(writer.out)
    IN  IF writer.out = <<>> THEN [ok |-> TRUE, v |-> <<>>]
        ELSE ParseJSON(IF finishCalls = 0 THEN text \o <<"]">> ELSE text)

(* C11: when init is called with no suites configured, or with a logger or *)
(* writer name that is not registered, no page is opened, writer.finish is *)
(* not called and nothing is written to the output.                        *)
C11_StartupFailureWritesNothing ==
    pc # "start" /\ (\/ configured = <<>>
                     \/ config.log \notin Loggers
                     \/ config.writer \notin Writers)
       => opened = <<>> /\ finishCalls = 0 /\ writer.out = <<>>

(* C12: a run that drains the queue exits with status 0 after finish, and  *)
(* a run ended by a fatal configuration error (no configuration file       *)
(* named, a file not loadable, no suites, a logger or writer name not      *)
(* registered) exits with a status that is not 0.                          *)
C12_ExitStatusDistinguishes ==
    pc = "exited" =>
       IF phantom.fatal # <<>> \/ phantom.usage
       THEN phantom.status # 0
       ELSE phantom.status = 0 /\ finishCalls = 1

(* C1: no URL is passed to page.open more than once in a run.              *)
C1_NoUrlOpenedTwice == NoDuplicates(opened)

(* C2: the child suite link discovery enqueues holds exactly the           *)
(* candidates that are not yet visited, in order, and no child is enqueued *)
(* when none is left.                                                      *)
C2_ChildUrlsAreFiltered ==
    disc.happened =>
       /\ (disc.enqueued => disc.urls = filter(disc.candidates, disc.visited))
       /\ (filter(disc.candidates, disc.visited) = <<>> => ~disc.enqueued)

(* C3 as stated: top-level suites have depth 0, a child its parent's depth *)
(* plus 1, and with any maxDepth configured, 0 included, no suite's depth  *)
(* exceeds it.                                                             *)
C3_DepthWithinAnyMaxDepth ==
    \A s \in AllSuites :
       /\ s.depth = Len(s.title) - 1
       /\ (s.opts.maxDepthSet => s.depth <= s.opts.maxDepth)

(* C3 amended: top-level suites have depth 0, a child its parent's depth   *)
(* plus 1 and its parent's options, and with a positive maxDepth           *)
(* configured no suite's depth exceeds it.                                 *)
C3_DepthWithinPositiveMaxDepth ==
    /\ \A s \in AllSuites :
          /\ s.depth = Len(s.title) - 1
          /\ s.opts = configured[s.title[1] + 1].opts
          /\ (s.opts.maxDepthSet /\ s.opts.maxDepth > 0 => s.depth <= s.opts.maxDepth)
    /\ (disc.enqueued => disc.depth = disc.parentDepth + 1)

C3_Witness ==
    /\ disc.happened /\ ~disc.enqueued
    /\ disc.candidates # <<>>
    /\ disc.maxDepthSet /\ disc.maxDepth = 1
    /\ disc.parentDepth = disc.maxDepth

(* C6: finish is called at most once, and once the run has ended exactly   *)
(* once; when it is called the suite queue is empty, no suite runs, no     *)
(* page is in flight and no poll is pending, and no add follows it.        *)
C6_FinishOnceAtTheEnd ==
    /\ [](/\ finishCalls <= 1
          /\ (pc = "exited" <=> finishCalls = 1)
          /\ (finishCalls = 1 =>
                /\ suites = <<>>
                /\ ~suite.running
                /\ page.state \notin {"opening", "polling"}
                /\ ~timer.armed))
    /\ [][finishCalls = 1 => addArgs' = addArgs /\ finishCalls' = 1]_vars

C6_Witness ==
    /\ pc = "exited"
    /\ finishCalls = 1
    /\ Len(runOrder) >= 2
    /\ Len(addArgs) >= 1

ProducedAnyValue(r) ==
    IF r.kind = "array" THEN Len(r.v) ELSE IF r.kind = "value" THEN 1 ELSE 0

RECURSIVE SumAnyValue(_)
SumAnyValue(args) ==
    IF args = <<>> THEN 0 ELSE ProducedAnyValue(args[1]) + SumAnyValue(Tail(args))

ProducedTruthy(r) ==
    IF r.kind = "array" THEN Len(r.v)
    ELSE IF r.kind = "value" /\ r.v[1] # 0 THEN 1 ELSE 0

RECURSIVE SumTruthy(_)
SumTruthy(args) ==
    IF args = <<>> THEN 0 ELSE ProducedTruthy(args[1]) + SumTruthy(Tail(args))

(* C7 as stated: count() is the number of items the scrapers produced, a   *)
(* list counting its length, any single value 1, no result 0.              *)
C7_CountIsItemsProducedAnyValue == count(writer) = SumAnyValue(addArgs)

(* C7 amended: count() is the number of items the scrapers produced on     *)
(* loaded pages, a list counting its length, a single truthy value 1, a    *)
(* falsy result (none, or the number 0) 0, whatever was flushed.           *)
C7_CountIsItemsProduced ==
    /\ count(writer) = SumTruthy(addArgs)
    /\ \A k \in 1..Len(addTags) : addTags[k].open \in loaded
    /\ (finishCalls = 0 => count(writer) = Len(WrittenItems.v) + Len(writer.items))

C7_Witness ==
    /\ count(writer) >= 3
    /\ writer.out # <<>>
    /\ writer.items # <<>>
    /\ finishCalls = 0
    /\ Value(0) \in Range(addArgs)
    /\ Undefined \in Range(addArgs)
    /\ \E r \in Range(addArgs) : r.kind = "array"

TagBefore(a, b) ==
    \/ a.suite < b.suite
    \/ a.suite = b.suite /\ a.url < b.url
    \/ a.suite = b.suite /\ a.url = b.url /\ a.scraper < b.scraper

(* C8: add calls come in the order suites left the queue, then URL         *)
(* position, then scraper; the written items followed by the buffered ones *)
(* are the added items in that order; while a page is polled no later URL  *)
(* is opened and nothing of a later URL is added.                          *)
C8_ItemsInProductionOrder ==
    /\ \A j, k \in 1..Len(addTags) : j < k => TagBefore(addTags[j], addTags[k])
    /\ WrittenItems.ok
    /\ (IF finishCalls = 0 THEN WrittenItems.v \o writer.items ELSE WrittenItems.v)
          = AllAdded(addArgs)
    /\ (timer.armed =>
          /\ timer.page.n = Len(opened)
          /\ page.n = timer.page.n
          /\ \A k \in 1..Len(addTags) : addTags[k].open < timer.page.n)

C8_Witness ==
    /\ timer.armed
    /\ timer.elapsed > 0
    /\ Len(addTags) >= 1
    /\ page.pos < Len(suite.s.urls)
    /\ Len(runOrder) >= 2

(* C9: when page.open reports a failure, an error is logged for the URL,   *)
(* nothing is scraped or added, no links are discovered, visited and the   *)
(* writer's items and count stay as they are, and the suite goes on to its *)
(* next URL or completes; a run that ends has called finish, and its       *)
(* output holds exactly the items added from pages that loaded.            *)
C9_LoadFailureIsSkipped ==
    /\ [][OpenFails =>
            /\ errors' = Append(errors, page.url)
            /\ addArgs' = addArgs /\ addTags' = addTags
            /\ scraped' = scraped /\ loaded' = loaded
            /\ visited' = visited
            /\ disc' = disc
            /\ Len(suites') <= Len(suites)
            /\ writer'.items = writer.items /\ writer'.count = writer.count
            /\ (writer'.out = writer.out \/ pc' = "exited")
            /\ (IF suite.runCounter < Len(suite.s.urls)
                THEN /\ opened' = Append(opened, suite.s.urls[suite.runCounter + 1])
                     /\ suite'.s = suite.s
                     /\ suite'.runCounter = suite.runCounter + 1
                ELSE Len(runOrder') > Len(runOrder) \/ pc' = "exited")
            /\ (pc' = "exited" => finishCalls' = 1 /\ suites' = <<>>)]_vars
    /\ [](pc = "exited" =>
            /\ WrittenItems = [ok |-> TRUE, v |-> AllAdded(addArgs)]
            /\ \A k \in 1..Len(addTags) : addTags[k].open \in loaded
            /\ Len(errors) + Cardinality(loaded) = Len(opened))

C9_Witness ==
    /\ pc = "exited"
    /\ opened = <<"a", "b">>
    /\ errors = <<"a">>
    /\ loaded = {2}
    /\ count(writer) >= 1
    /\ WrittenItems.v = AllAdded(addArgs)

(* C10: a poll tick that finds the page not ready extracts only when the   *)
(* elapsed time is above the limit, and then it does; otherwise it adds    *)
(* the interval to the elapsed time and nothing else happens; the tick     *)
(* that extracts cancels the timer; every loaded page is extracted once.   *)
C10_TimeoutExtractsOnce ==
    /\ [][timer.armed =>
            \/ /\ timer.elapsed <= config.timeoutLimit
               /\ timer' = [timer EXCEPT !.elapsed = @ + config.timeoutInterval]
               /\ scraped' = scraped /\ addArgs' = addArgs /\ opened' = opened
               /\ extraction' = extraction
            \/ /\ scraped' = Append(scraped, timer.page.n)
               /\ extraction'.n = timer.page.n
               /\ extraction'.how \in {"ready", "timeout"}
               /\ (extraction'.how = "timeout" => timer.elapsed > config.timeoutLimit)
               /\ ~timer'.armed]_vars
    /\ [](/\ NoDuplicates(scraped)
          /\ Range(scraped) = loaded \ (IF timer.armed THEN {timer.page.n} ELSE {})
          /\ (timer.armed => page.state = "polling" /\ timer.page.n \in loaded))

C10_Witness ==
    /\ extraction.how = "timeout"
    /\ extraction.n \in Range(scraped)
    /\ ~timer.armed
    /\ config.timeoutLimit = 2 * config.timeoutInterval

\* the places in the history where e happened to the suite title
At(e, title) == {k \in 1..Len(events) : events[k].e = e /\ events[k].title = title}

\* the suites added up to the place a of the history and not run by then
QueuedAt(a) ==
    {events[k].title : k \in {j \in 1..a : events[j].e = "add"}}
      \ {events[k].title : k \in {j \in 1..a : events[j].e = "run"}}

\* the titles of the history's e entries, in order
RECURSIVE TitlesOf(_, _)
TitlesOf(e, evs) ==
    IF evs = <<>> THEN <<>>
    ELSE (IF evs[1].e = e THEN <<evs[1].title>> ELSE <<>>) \o TitlesOf(e, Tail(evs))

(* C14: a child suite is added at the tail of the queue: the queue is the  *)
(* suites added and not yet run, in the order they were added, and suites  *)
(* run in that order; a child runs only after the suite that discovered it *)
(* has completed and after every suite that was queued when it was added   *)
(* has run and completed.                                                  *)
C14_ChildRunsAfterQueuedSuites ==
    LET added == TitlesOf("add", events)
        ran == TitlesOf("run", events)
    IN  /\ Len(ran) <= Len(added)
        /\ ran = SubSeq(added, 1, Len(ran))
        /\ [k \in 1..Len(suites) |-> suites[k].title]
              = SubSeq(added, Len(ran) + 1, Len(added))
        /\ \A a \in 1..Len(events) :
              events[a].e = "add" /\ Len(events[a].title) > 1 =>
                LET child == events[a].title
                    parent == SubSeq(child, 1, Len(child) - 1)
                IN  /\ \E r \in At("run", parent) : r < a
                    /\ \A c \in At("complete", parent) : a < c
                    /\ \A r \in At("run", child) :
                          /\ \E c \in At("complete", parent) : a < c /\ c < r
                          /\ \A q \in QueuedAt(a) \ {child} :
                                /\ \E rq \in At("run", q) : a < rq /\ rq < r
                                /\ \E cq \in At("complete", q) : cq < r

C14_Witness ==
    /\ At("run", <<0, 0>>) # {}
    /\ \E a \in At("add", <<0, 0>>) : <<1>> \in QueuedAt(a)
    /\ \E c \in At("complete", <<1>>) : \E r \in At("run", <<0, 0>>) : c < r

\* the history's entries about suites running, and those about URLs
SuiteEvents == SelectSeq(events, LAMBDA ev : ev.e \in {"run", "complete"})
PageEvents == SelectSeq(events, LAMBDA ev : ev.e \in {"open", "done"})

\* whether the suite title is between its run and its completion at place k
RunningAt(title, k) ==
    \E r \in At("run", title) :
       r < k /\ \A j \in (r + 1)..(k - 1) : events[j].e \notin {"run", "complete"}

(* C15: suites run one at a time and URLs are handled one at a time: a     *)
(* suite is run only when the one before it has completed, a URL is opened *)
(* only when the one before it is done, every URL is opened and done while *)
(* its suite runs, and while a page is opening or being polled it is the   *)
(* only URL not done and its suite the only one running.                   *)
C15_OneSuiteOnePage ==
    /\ \A k \in 1..Len(SuiteEvents) :
          IF k % 2 = 1 THEN SuiteEvents[k].e = "run"
          ELSE SuiteEvents[k].e = "complete"
               /\ SuiteEvents[k].title = SuiteEvents[k - 1].title
    /\ \A k \in 1..Len(PageEvents) :
          IF k % 2 = 1 THEN PageEvents[k].e = "open" /\ PageEvents[k].n = (k + 1) \div 2
          ELSE PageEvents[k].e = "done" /\ PageEvents[k].n = PageEvents[k - 1].n
    /\ \A k \in 1..Len(events) :
          events[k].e \in {"open", "done"} => RunningAt(events[k].title, k)
    /\ (suite.running <=> Len(SuiteEvents) % 2 = 1)
    /\ (page.state \in {"opening", "polling"} <=> Len(PageEvents) % 2 = 1)
    /\ (page.state \in {"opening", "polling"} =>
          /\ suite.running
          /\ page.n = PageEvents[Len(PageEvents)].n
          /\ PageEvents[Len(PageEvents)].title = suite.s.title)
    /\ (timer.armed <=> page.state = "polling")
    /\ (timer.armed => timer.page.n = page.n)

C15_Witness ==
    /\ timer.armed
    /\ timer.elapsed > 0
    /\ suites # <<>>
    /\ Len(PageEvents) = 3
    /\ Len(SuiteEvents) = 3

(* C16: with the one-file-per-item writer, after add calls that supplied n *)
(* items there are n output files, a different one for each item, the      *)
(* k-th item's file holding the k-th item formatted; finish writes         *)
(* nothing.                                                                *)
C16_OneFilePerItem ==
    LET its == AllAdded(addArgs)
        names == DOMAIN writer.files
    IN  /\ Cardinality(names) = Len(its)
        /\ \E f \in [1..Len(its) -> names] :
              /\ \A j, k \in 1..Len(its) : j # k => f[j] # f[k]
              /\ \A k \in 1..Len(its) :
                    writer.files[f[k]] = formatterFormat(writer.format, its[k])

\* The pieces of str between the elements equal to sep.
RECURSIVE SplitOn(_, _)
SplitOn(str, sep) ==
    IF \A k \in 1..Len(str) : str[k] # sep THEN <<str>>
    ELSE LET p == CHOOSE k \in 1..Len(str) :
                      str[k] = sep /\ \A j \in 1..(k - 1) : str[j] # sep
         IN  <<SubSeq(str, 1, p - 1)>> \o SplitOn(SubSeq(str, p + 1, Len(str)), sep)

\* A row read as CSV: a field is quoted or not, a quoted one ends at a
\* quote that is not doubled, and only a comma may follow it.  mode is
\* "start" (of a field), "plain", "quoted" or "closed"; cur is the field
\* read so far.
RECURSIVE ParseCsvRow(_, _, _)
ParseCsvRow(str, mode, cur) ==
    IF str = <<>> THEN [ok |-> mode # "quoted", cells |-> <<cur>>]
    ELSE LET c == str[1]
             rest == Tail(str)
         IN  CASE mode = "quoted" /\ c = "\"" /\ rest # <<>> /\ rest[1] = "\"" ->
                     ParseCsvRow(Tail(rest), "quoted", Append(cur, "\""))
               [] mode = "quoted" /\ c = "\"" /\ (rest = <<>> \/ rest[1] # "\"") ->
                     ParseCsvRow(rest, "closed", cur)
               [] mode = "quoted" /\ c # "\"" ->
                     ParseCsvRow(rest, "quoted", Append(cur, c))
               [] mode # "quoted" /\ c = "," ->
                     LET r == ParseCsvRow(rest, "start", <<>>)
                     IN  [ok |-> r.ok, cells |-> <<cur>> \o r.cells]
               [] mode = "start" /\ c = "\"" -> ParseCsvRow(rest, "quoted", cur)
               [] mode \in {"start", "plain"} /\ c \notin {",", "\""} ->
                     ParseCsvRow(rest, "plain", Append(cur, c))
               [] OTHER ->
                     LET r == ParseCsvRow(rest, mode, Append(cur, c))
                     IN  [ok |-> FALSE, cells |-> r.cells]

\* What the finished csv output must be for the items its: a header row,
\* then one row for each item, each with as many fields as the header; the
\* cells past the end of a short list and the cells of the fields an object
\* does not have are empty; the header is the configured field list, or
\* the one inferred from the first item.
CsvRowsMatchHeader(text, its, inferred) ==
    LET rows == SplitOn(text, "\r\n")
        header == ParseCsvRow(rows[1], "start", <<>>)
    IN  its # <<>> =>
          /\ Len(rows) = 1 + Len(its)
          /\ header.ok
          /\ (inferred =>
                header.cells =
                  (IF its[1].kind = "list"
                   THEN [i \in 1..Len(its[1].cells) |-> <<"Column ">> \o Digits(i)]
                   ELSE its[1].keys))
          /\ \A k \in 1..Len(its) :
                LET r == ParseCsvRow(rows[k + 1], "start", <<>>)
                IN  /\ r.ok
                    /\ Len(r.cells) = Len(header.cells)
                    /\ (its[k].kind = "list" =>
                          \A j \in (Len(its[k].cells) + 1)..Len(r.cells) : r.cells[j] = <<>>)
                    /\ (its[k].kind = "object" =>
                          \A j \in 1..Len(r.cells) :
                             header.cells[j] \notin Range(its[k].keys) => r.cells[j] = <<>>)

(* C17: in the finished csv output every item's row has exactly as many    *)
(* fields as the header row (the configured csvFields, or the fields       *)
(* inferred from the first item), a long list cut, a short one padded with *)
(* empty cells, an object's missing field an empty cell; the header row    *)
(* comes once, before the first data row.                                  *)
C17_CsvRowsMatchHeader ==
    pc = "csv" /\ finishCalls = 1 =>
       CsvRowsMatchHeader(Concat(writer.out), addArgs, writer.start = <<>>)

(* C18: with maxDepth unset, link discovery adds a child suite only when   *)
(* it yields at least one URL that is not yet visited (so that a hook      *)
(* returning URLs of a finite set cannot keep the queue from draining).    *)
C18_ChildOnlyForUnseenUrls ==
    disc.happened /\ disc.enqueued /\ ~disc.maxDepthSet =>
       \E k \in 1..Len(disc.candidates) : disc.candidates[k] \notin disc.visited

\* how many times the URL opened as the n-th page was done
DoneCount(evs, n) == Cardinality({k \in 1..Len(evs) : evs[k].e = "done" /\ evs[k].n = n})

(* C19: the complete callback of a URL is called exactly once, on every    *)
(* path: the open callback calls it when the load failed or the page is    *)
(* ready, else the poll does, when the page is ready or the limit is       *)
(* passed, and until then it has not been called; with a positive interval *)
(* every tick of a poll either ends it or adds the interval to the elapsed *)
(* time, which never passes the limit plus one interval, so a poll ends    *)
(* after a bounded number of ticks; a suite opens its URLs one position    *)
(* after the other, none twice.                                            *)
C19_UrlCompletesExactlyOnce ==
    /\ [](/\ \A n \in 1..Len(opened) :
               DoneCount(events, n) =
                 (IF n = page.n /\ page.state \in {"opening", "polling"} THEN 0 ELSE 1)
          /\ (timer.armed =>
                timer.elapsed <= config.timeoutLimit + config.timeoutInterval))
    /\ [][/\ (page.state \in {"opening", "polling"} =>
                \/ page'.state = "polling" /\ page'.n = page.n
                \/ DoneCount(events', page.n) = 1)
          /\ (page.state = "opening" /\ page'.state = "polling" /\ page'.n = page.n =>
                page.n \in loaded' /\ timer'.armed /\ timer'.elapsed = 0)
          /\ (timer.armed /\ timer'.armed /\ timer'.page.n = timer.page.n =>
                /\ config.timeoutInterval > 0
                /\ timer'.elapsed = timer.elapsed + config.timeoutInterval)
          /\ (opened' # opened =>
                /\ Len(opened') = Len(opened) + 1
                /\ page'.pos = suite'.runCounter
                /\ page'.url = suite'.s.urls[page'.pos]
                /\ (IF runOrder' = runOrder
                    THEN suite'.s = suite.s /\ page'.pos = suite.runCounter + 1
                    ELSE page'.pos = 1))]_vars

C19_Witness ==
    /\ extraction.how = "timeout"
    /\ errors # <<>>
    /\ Len(opened) = 3
    /\ DoneCount(events, 1) = 1 /\ DoneCount(events, 2) = 1
    /\ timer.armed

\* the options of the suite title: those of the configured suite it
\* descends from
OptsOf(title) == configured[title[1] + 1].opts

\* the history from the place k on up to, not including, the first "done"
RECURSIVE UpToDone(_, _)
UpToDone(evs, k) ==
    IF k > Len(evs) \/ evs[k].e = "done" THEN <<>>
    ELSE <<evs[k].e>> \o UpToDone(evs, k + 1)

(* C20: when the scrapable predicate is false for a loaded page, no suite  *)
(* script is injected, preScrape and the scrapers are not run and nothing  *)
(* is added for that URL, yet the URL is visited, its complete callback    *)
(* runs and, with a hook configured, link discovery is done for it; when   *)
(* the predicate is true the suite's scripts are injected, then preScrape  *)
(* runs, then the scrapers, each result going to writer.add.               *)
C20_NotScrapableSkipsExtraction ==
    \A k \in 1..Len(events) :
       events[k].e \in {"scrapable", "notScrapable"} =>
         LET n == events[k].n
             o == OptsOf(events[k].title)
             did == UpToDone(events, k + 1)
             d == k + 1 + Len(did)
             adds == {j \in 1..Len(addTags) : addTags[j].open = n}
         IN  /\ n \in loaded
             /\ opened[n] \in visited
             /\ d <= Len(events) /\ events[d].e = "done" /\ events[d].n = n
             /\ (o.moreUrls =>
                   d < Len(events) /\ events[d + 1].e = "moreUrls" /\ events[d + 1].n = n)
             /\ IF events[k].e = "notScrapable"
                THEN did = <<>> /\ adds = {}
                ELSE /\ did = [j \in 1..o.loadScript |-> "injectJs"]
                               \o <<"preScrape">>
                               \o [j \in 1..o.scrapers |-> "scraper"]
                     /\ Cardinality(adds) = o.scrapers

C20_Witness ==
    /\ \E k \in 1..(Len(events) - 2) :
          /\ events[k].e = "notScrapable"
          /\ events[k + 1].e = "done"
          /\ events[k + 2].e = "moreUrls"
          /\ disc.enqueued
    /\ \E k \in 1..(Len(events) - 4) :
          /\ events[k].e = "scrapable"
          /\ events[k + 1].e = "injectJs"
          /\ events[k + 2].e = "preScrape"
          /\ events[k + 3].e = "scraper"
    /\ count(writer) >= 1

(* ---------------------- the buffer stays bounded ---------------------- *)
\* The number of items one add call with the argument i supplies.
Supplied(i) == Len(AllAdded(<<i>>))

\* Every add call so far supplied at most B items, B the threshold set.
AddsWithinBatch ==
    /\ writer.batchSize # 0
    /\ \A k \in 1..Len(addArgs) : Supplied(addArgs[k]) <= writer.batchSize

(* C21: with a threshold B set and every add call supplying at most B      *)
(* items, the buffer holds at most B items after every add call; and      *)
(* right after an add call that wrote a batch the buffer is not empty.    *)
C21_BufferWithinBatch ==
    /\ [](AddsWithinBatch => Len(writer.items) <= writer.batchSize)
    /\ [][(addArgs' # addArgs /\ writer'.out # writer.out)
              => writer'.items # <<>>]_vars

C21_Witness ==
    /\ finishCalls = 0
    /\ AddsWithinBatch
    /\ writer.batchSize = MaxBatch
    /\ Len(addArgs) >= 3
    /\ Supplied(addArgs[Len(addArgs)]) = writer.batchSize
    /\ Len(writer.out) >= 1
    /\ Len(writer.items) = writer.batchSize

(* ------------------------- the run terminates ------------------------- *)
(* C22: when every suite sets a maxDepth of at least 1, discovery returns  *)
(* finite lists and the poll interval is positive, the run ends: the      *)
(* queue becomes empty and the terminal callback runs, finishing the      *)
(* writer and exiting, even when discovery keeps returning visited URLs.  *)
C22_DepthLimitedRunTerminates ==
    <>(pc = "exited" /\ suites = <<>> /\ ~suite.running /\ ~timer.armed
          /\ finishCalls = 1 /\ phantom.exits = 1)

C22_Witness ==
    /\ pc = "exited"
    /\ finishCalls = 1
    /\ suites = <<>>
    /\ Len(opened) >= 3
    /\ \A k \in 2..Len(opened) : opened[k] = "c" /\ opened[k - 1] = "c"
    /\ disc.happened /\ ~disc.enqueued
    /\ disc.candidates = <<"c">> /\ "c" \in disc.visited
    /\ disc.parentDepth = disc.maxDepth

====
